---- MODULE Spec2Model ----
(***************************************************************************)
(* Trace analytics of the observability stack: the span tree builder and   *)
(* the flattening of TraceTimeline / ModernTraceTimeline, the recursive    *)
(* depth(n) of TraceGraph, the trace store (useTraceStore), the filter and *)
(* sort of AdvancedTraceSearch / TraceSearch, and the aggregates of        *)
(* ResponsiveMetricCards.                                                  *)
(*                                                                         *)
(* Spans are named by their position in the input sequence (span_id = i,   *)
(* unique within a trace), so every input order of every parent relation   *)
(* is one assignment of parent_span_id.                                    *)
(***************************************************************************)
EXTENDS Integers, Sequences, FiniteSets, TLC

\* ---------------------------------------------------------------- bounds
NumSpans == 3
MaxStart == 1
MaxDur == 1
MaxStack == 6
MaxFetches == 3

\* parent_span_id absent / null / empty string (all falsy in the code)
NoParent == 0
ParentRefs == 0..(NumSpans + 1)

VARIABLES
  spans,            \* props.spans of the timeline component
  mounted,          \* the component has rendered (the memos are computed)
  spanTree,         \* useMemo spanTree: [rootSpans, spanMap]
  collapsedSpans,   \* useState collapsedSpans
  flattenedSpans,   \* useMemo flattenedSpans
  maxTime,          \* useMemo maxTime
  nodes,            \* TraceGraph nodes
  depthMap,         \* TraceGraph depthMap (memo of depth)
  depthStack,       \* call stack of depth(n): frames [id, at]
  depthRet,         \* value returned by the frame that just returned
  rows,             \* nodes.map(n => depth(n)), built left to right
  depthPc,          \* "map" | "call" | "done" | "overflow"
  store,            \* zustand state of useTraceStore
  inflight,         \* promises of tracingApi not yet settled
  fetches,          \* number of fetches started so far
  traceList,        \* props.traces of the search component
  filters,          \* useState filters
  filteredTraces,   \* useMemo filteredTraces
  clock,            \* the system clock (what new Date() returns), in ms
  metricTraces,     \* props.traces of the metric cards
  metricSpans,      \* props.spans of the metric cards
  metrics,          \* useMemo metrics
  metricsReady      \* the metric cards have rendered (the memo is computed)

vars == <<spans, mounted, spanTree, collapsedSpans, flattenedSpans, maxTime,
          nodes, depthMap, depthStack, depthRet, rows, depthPc,
          store, inflight, fetches,
          traceList, filters, filteredTraces, clock,
          metricTraces, metricSpans, metrics, metricsReady>>

timelineVars == <<spans, mounted, spanTree, collapsedSpans, flattenedSpans, maxTime>>
graphVars == <<nodes, depthMap, depthStack, depthRet, rows, depthPc>>
storeVars == <<store, inflight, fetches>>
searchVars == <<traceList, filters, filteredTraces, clock>>
metricsVars == <<metricTraces, metricSpans, metrics, metricsReady>>

\* ------------------------------------------------------------ span inputs
MinuteMs == 60 * 1000
HourMs == 60 * MinuteMs
DayMs == 24 * HourMs

\* an ISO-8601 timestamp: wall-clock milliseconds and the UTC offset it carries
Iso(wall, offset) == [wall |-> wall, offset |-> offset]

Span(i, p, s, d) ==
  [span_id |-> i, parent_span_id |-> p,
   start_time |-> Iso(s, 0), end_time |-> Iso(s + d, 0)]

\* the input sequence of n spans with the given parents, starts and durations
spansFrom(n, ps, ss, ds) == [i \in 1..n |-> Span(i, ps[i], ss[i], ds[i])]

SeqMin(s) == CHOOSE x \in {s[i] : i \in 1..Len(s)} : \A j \in 1..Len(s) : x <= s[j]
SeqMax(s) == CHOOSE x \in {s[i] : i \in 1..Len(s)} : \A j \in 1..Len(s) : x >= s[j]

\* new Date(t).getTime(): the instant in epoch milliseconds
getTime(t) == t.wall - t.offset

minTime(ss) == SeqMin([i \in 1..Len(ss) |-> getTime(ss[i].start_time)])

\* ------------------------------------------------------- span tree builder
\* spans.forEach(span => spanMap.set(span.span_id, timelineSpan))
timelineSpan(span, mt) ==
  [span_id |-> span.span_id,
   parent_span_id |-> span.parent_span_id,
   depth |-> 0,
   children |-> <<>>,
   startMs |-> getTime(span.start_time) - mt,
   durationMs |-> (getTime(span.end_time) - mt) - (getTime(span.start_time) - mt)]

newSpanMap(ss) ==
  LET mt == minTime(ss)
  IN [id \in {ss[i].span_id : i \in 1..Len(ss)} |->
        timelineSpan(ss[CHOOSE i \in 1..Len(ss) :
                           /\ ss[i].span_id = id
                           /\ \A j \in 1..Len(ss) : ss[j].span_id = id => j <= i],
                     mt)]

\* iteration order of the Map: keys in order of first insertion
RECURSIVE mapOrder(_, _)
mapOrder(ss, seen) ==
  IF ss = <<>> THEN <<>>
  ELSE IF Head(ss).span_id \in seen THEN mapOrder(Tail(ss), seen)
       ELSE <<Head(ss).span_id>> \o mapOrder(Tail(ss), seen \cup {Head(ss).span_id})

\* if (span.parent_span_id && spanMap.has(span.parent_span_id))
hasResolvedParent(m, id) ==
  /\ m[id].parent_span_id # NoParent
  /\ m[id].parent_span_id \in DOMAIN m

\* a mutant of attachSpan: only a span without any parent reference is a root
attachSpanNoDangling(st, id) ==
  IF hasResolvedParent(st.spanMap, id)
  THEN LET p == st.spanMap[id].parent_span_id
           pushed == [st.spanMap EXCEPT ![p].children = Append(@, id)]
       IN [rootSpans |-> st.rootSpans,
           spanMap |-> [pushed EXCEPT ![id].depth = pushed[p].depth + 1]]
  ELSE IF st.spanMap[id].parent_span_id = NoParent
       THEN [rootSpans |-> Append(st.rootSpans, id), spanMap |-> st.spanMap]
       ELSE st

\* one iteration of spanMap.forEach in "Build tree structure"
attachSpan(st, id) ==
  IF hasResolvedParent(st.spanMap, id)
  THEN LET p == st.spanMap[id].parent_span_id
           pushed == [st.spanMap EXCEPT ![p].children = Append(@, id)]
       IN [rootSpans |-> st.rootSpans,
           spanMap |-> [pushed EXCEPT ![id].depth = pushed[p].depth + 1]]
  ELSE [rootSpans |-> Append(st.rootSpans, id), spanMap |-> st.spanMap]

RECURSIVE attachAll(_, _)
attachAll(st, order) ==
  IF order = <<>> THEN st
  ELSE attachAll(attachSpan(st, Head(order)), Tail(order))

\* Array.prototype.sort is stable: x goes after every element that does not
\* compare greater than it
RECURSIVE insertSorted(_, _, _)
insertSorted(sorted, x, m) ==
  IF sorted = <<>> THEN <<x>>
  ELSE IF m[Head(sorted)].startMs - m[x].startMs <= 0
       THEN <<Head(sorted)>> \o insertSorted(Tail(sorted), x, m)
       ELSE <<x>> \o sorted

RECURSIVE sortFrom(_, _, _)
sortFrom(sorted, rest, m) ==
  IF rest = <<>> THEN sorted
  ELSE sortFrom(insertSorted(sorted, Head(rest), m), Tail(rest), m)

\* a mutant of sortByStart: the comparison is the wrong way round
sortByStartDescending(list, m) ==
  LET asc == sortFrom(<<>>, list, m)
  IN [i \in 1..Len(asc) |-> asc[Len(asc) + 1 - i]]

\* spans.sort((a, b) => a.startMs - b.startMs)
sortByStart(list, m) == sortFrom(<<>>, list, m)

\* const sortChildren = (spans) => { spans.sort(...); spans.forEach(span => sortChildren(span.children)) }
\* returns the sorted array and the map with the children arrays sorted in place
RECURSIVE sortChildren(_, _)
RECURSIVE sortEach(_, _)
sortChildren(list, m) ==
  LET sorted == sortByStart(list, m)
  IN [list |-> sorted, spanMap |-> sortEach(sorted, m)]

sortEach(list, m) ==
  IF list = <<>> THEN m
  ELSE LET r == sortChildren(m[Head(list)].children, m)
       IN sortEach(Tail(list), [r.spanMap EXCEPT ![Head(list)].children = r.list])

\* useMemo spanTree
buildSpanTree(ss) ==
  IF Len(ss) = 0 THEN [rootSpans |-> <<>>, spanMap |-> <<>>]
  ELSE LET attached == attachAll([rootSpans |-> <<>>, spanMap |-> newSpanMap(ss)],
                                 mapOrder(ss, {}))
           r == sortChildren(attached.rootSpans, attached.spanMap)
       IN [rootSpans |-> r.list, spanMap |-> r.spanMap]

\* a mutant of flatten: the children of a collapsed span are still listed
RECURSIVE flattenIgnoringCollapse(_, _, _)
flattenIgnoringCollapse(list, m, collapsed) ==
  IF list = <<>> THEN <<>>
  ELSE <<Head(list)>>
       \o flattenIgnoringCollapse(m[Head(list)].children, m, collapsed)
       \o flattenIgnoringCollapse(Tail(list), m, collapsed)

\* const flatten = (spans) => spans.forEach(span => { result.push(span); if (!collapsed.has(id)) flatten(children) })
RECURSIVE flatten(_, _, _)
flatten(list, m, collapsed) ==
  IF list = <<>> THEN <<>>
  ELSE <<Head(list)>>
       \o (IF Head(list) \notin collapsed
           THEN flatten(m[Head(list)].children, m, collapsed)
           ELSE <<>>)
       \o flatten(Tail(list), m, collapsed)

\* a mutant of flattened: only the roots are listed
flattenedRootsOnly(tree, collapsed) == tree.rootSpans

\* useMemo flattenedSpans
flattened(tree, collapsed) == flatten(tree.rootSpans, tree.spanMap, collapsed)

\* a mutant of toggle: the id is added whether or not it is already collapsed
toggleAlwaysAdd(collapsed, spanId) == collapsed \cup {spanId}

\* newCollapsed of toggleCollapse / handleCanvasClick
toggle(collapsed, spanId) ==
  IF spanId \in collapsed THEN collapsed \ {spanId} ELSE collapsed \cup {spanId}

\* ------------------------------------------------- timeline component
noTree == [rootSpans |-> <<>>, spanMap |-> <<>>]

InitGraphIdle ==
  /\ nodes = <<>>
  /\ depthMap = <<>>
  /\ depthStack = <<>>
  /\ depthRet = -1
  /\ rows = <<>>
  /\ depthPc = "done"

InitStoreIdle ==
  /\ store = [traces |-> <<>>, selectedTraceId |-> "null", spans |-> <<>>,
              isLoading |-> FALSE, error |-> "null", showInMain |-> FALSE,
              selectedSessionId |-> "null"]
  /\ inflight = {}
  /\ fetches = 0

\* useState<Filters> initial value (also what clearFilters sets); the free-text
\* fields are sequences of characters, '' is <<>>
defaultFilters ==
  [searchTerm |-> <<>>, minDuration |-> <<>>, maxDuration |-> <<>>,
   status |-> "all", sessionId |-> <<>>, dateRange |-> "all",
   sortBy |-> "timestamp", sortOrder |-> "desc"]

InitSearchIdle ==
  /\ traceList = <<>>
  /\ filters = defaultFilters
  /\ filteredTraces = <<>>
  /\ clock = 0

\* a JavaScript number that is a ratio of two integers (den > 0)
Rat(n, d) == [num |-> n, den |-> d]

\* the record returned when traces is empty
emptyMetrics ==
  [avgLatency |-> Rat(0, 1), p95Latency |-> 0, p99Latency |-> 0,
   errorRate |-> Rat(0, 1), throughput |-> Rat(0, 1), totalTokens |-> 0,
   successRate |-> Rat(0, 1), slowestTrace |-> 0]

InitMetricsIdle ==
  /\ metricTraces = <<>>
  /\ metricSpans = <<>>
  /\ metrics = emptyMetrics
  /\ metricsReady = FALSE

InitTimelineIdle ==
  /\ spans = <<>>
  /\ mounted = FALSE
  /\ spanTree = noTree
  /\ collapsedSpans = {}
  /\ flattenedSpans = <<>>
  /\ maxTime = 0

\* the component is constructed with props.spans; nothing is computed yet
\* inputs of the tree builder: every parent relation and every order of starts
\* (the builder reads end_time only to fill durationMs)
InitTimeline ==
  /\ \E n \in 0..NumSpans :
       \E ps \in [1..n -> ParentRefs], ss \in [1..n -> 0..MaxStart] :
         spans = spansFrom(n, ps, ss, [i \in 1..n |-> 0])
  /\ mounted = FALSE
  /\ spanTree = noTree
  /\ collapsedSpans = {}
  /\ flattenedSpans = <<>>
  /\ maxTime = 0
  /\ InitGraphIdle
  /\ InitStoreIdle
  /\ InitSearchIdle
  /\ InitMetricsIdle

\* first render: the three memos are computed from props.spans
Render ==
  \* useMemo maxTime
  LET computeMaxTime(ss) ==
        IF Len(ss) = 0 THEN 1
        ELSE SeqMax([i \in 1..Len(ss) |-> getTime(ss[i].end_time)]) - minTime(ss)
  IN
  /\ ~mounted
  /\ mounted' = TRUE
  /\ spanTree' = buildSpanTree(spans)
  /\ flattenedSpans' = flattened(spanTree', collapsedSpans)
  /\ maxTime' = computeMaxTime(spans)
  /\ UNCHANGED <<spans, collapsedSpans, graphVars, storeVars, searchVars, metricsVars>>

\* click on the collapse icon of a listed span that has children, and the
\* re-render that recomputes flattenedSpans from the new collapsed set
ToggleCollapse(spanId) ==
  /\ mounted
  /\ \E k \in 1..Len(flattenedSpans) : flattenedSpans[k] = spanId
  /\ Len(spanTree.spanMap[spanId].children) > 0
  /\ collapsedSpans' = toggle(collapsedSpans, spanId)
  /\ flattenedSpans' = flattened(spanTree, toggle(collapsedSpans, spanId))
  /\ UNCHANGED <<spans, mounted, spanTree, maxTime, graphVars, storeVars, searchVars, metricsVars>>

NextTimeline ==
  \/ Render
  \/ \E spanId \in 1..NumSpans : ToggleCollapse(spanId)

SpecTimeline == InitTimeline /\ [][NextTimeline]_vars

\* the same component, constructed with spans that differ in their time window
\* (every start and duration, flat or one level deep)
InitWindow ==
  /\ \E n \in 0..NumSpans :
       \E ps \in [1..n -> {NoParent, 1}], ss \in [1..n -> 0..MaxStart], ds \in [1..n -> 0..MaxDur] :
         spans = spansFrom(n, ps, ss, ds)
  /\ mounted = FALSE
  /\ spanTree = noTree
  /\ collapsedSpans = {}
  /\ flattenedSpans = <<>>
  /\ maxTime = 0
  /\ InitGraphIdle
  /\ InitStoreIdle
  /\ InitSearchIdle
  /\ InitMetricsIdle

SpecWindow == InitWindow /\ [][NextTimeline]_vars

\* ------------------------------------------------- TraceGraph depth(n)

\* const byId = new Map(nodes.map(n => [n.id, n]))
byId ==
  [id \in {nodes[i].id : i \in 1..Len(nodes)} |->
     nodes[CHOOSE i \in 1..Len(nodes) :
             /\ nodes[i].id = id
             /\ \A j \in 1..Len(nodes) : nodes[j].id = id => j <= i]]

\* if (!n.parent || !byId.has(n.parent)) return 0
depthIsRoot(n) == n.parent = NoParent \/ n.parent \notin DOMAIN byId

topFrame == depthStack[Len(depthStack)]
popFrame == SubSeq(depthStack, 1, Len(depthStack) - 1)

InitGraph ==
  \* useMemo nodes: spans.map(s => ({ id, ..., parent: s.parent_span_id || null }))
  LET toNodes(ss) ==
        [i \in 1..Len(ss) |->
           [id |-> ss[i].span_id,
            start |-> getTime(ss[i].start_time),
            end |-> getTime(ss[i].end_time),
            parent |-> ss[i].parent_span_id]]
  IN
  /\ \E n \in 0..NumSpans :
       \E ps \in [1..n -> ParentRefs] :
         nodes = toNodes(spansFrom(n, ps, [i \in 1..n |-> 0], [i \in 1..n |-> 0]))
  /\ depthMap = <<>>
  /\ depthStack = <<>>
  /\ depthRet = -1
  /\ rows = <<>>
  /\ depthPc = IF Len(nodes) = 0 THEN "done" ELSE "map"
  /\ InitTimelineIdle
  /\ InitStoreIdle
  /\ InitSearchIdle
  /\ InitMetricsIdle

\* nodes.map(n => depth(n)): the call for the next node
DepthCall ==
  /\ depthPc = "map"
  /\ depthStack' = <<[id |-> nodes[Len(rows) + 1].id, at |-> "enter"]>>
  /\ depthPc' = "call"
  /\ UNCHANGED <<nodes, depthMap, depthRet, rows, timelineVars, storeVars, searchVars, metricsVars>>

\* line 47: return 0
DepthReturnZero ==
  /\ depthPc = "call" /\ depthStack # <<>> /\ topFrame.at = "enter"
  /\ depthIsRoot(byId[topFrame.id])
  /\ depthRet' = 0
  /\ depthStack' = popFrame
  /\ UNCHANGED <<nodes, depthMap, rows, depthPc, timelineVars, storeVars, searchVars, metricsVars>>

\* line 49: return depthMap.get(key)
DepthReturnMemo ==
  /\ depthPc = "call" /\ depthStack # <<>> /\ topFrame.at = "enter"
  /\ ~depthIsRoot(byId[topFrame.id])
  /\ topFrame.id \in DOMAIN depthMap
  /\ depthRet' = depthMap[topFrame.id]
  /\ depthStack' = popFrame
  /\ UNCHANGED <<nodes, depthMap, rows, depthPc, timelineVars, storeVars, searchVars, metricsVars>>

\* line 50: the recursive call depth(byId.get(n.parent))
DepthRecurse ==
  /\ depthPc = "call" /\ depthStack # <<>> /\ topFrame.at = "enter"
  /\ ~depthIsRoot(byId[topFrame.id])
  /\ topFrame.id \notin DOMAIN depthMap
  /\ Len(depthStack) < MaxStack
  /\ depthStack' = Append([depthStack EXCEPT ![Len(depthStack)].at = "await"],
                          [id |-> byId[topFrame.id].parent, at |-> "enter"])
  /\ UNCHANGED <<nodes, depthMap, depthRet, rows, depthPc, timelineVars, storeVars, searchVars, metricsVars>>

\* line 50 with the call stack exhausted: RangeError, the effect is abandoned
DepthOverflow ==
  /\ depthPc = "call" /\ depthStack # <<>> /\ topFrame.at = "enter"
  /\ ~depthIsRoot(byId[topFrame.id])
  /\ topFrame.id \notin DOMAIN depthMap
  /\ Len(depthStack) >= MaxStack
  /\ depthPc' = "overflow"
  /\ UNCHANGED <<nodes, depthMap, depthStack, depthRet, rows, timelineVars, storeVars, searchVars, metricsVars>>

\* lines 50-52: d = 1 + <returned>; depthMap.set(key, d); return d
DepthResume ==
  /\ depthPc = "call" /\ depthStack # <<>> /\ topFrame.at = "await"
  /\ depthRet # -1
  /\ depthMap' = [id \in DOMAIN depthMap \cup {topFrame.id} |->
                    IF id = topFrame.id THEN 1 + depthRet ELSE depthMap[id]]
  /\ depthRet' = 1 + depthRet
  /\ depthStack' = popFrame
  /\ UNCHANGED <<nodes, rows, depthPc, timelineVars, storeVars, searchVars, metricsVars>>

\* the value of the outermost call becomes the next element of rows
DepthCollect ==
  /\ depthPc = "call" /\ depthStack = <<>>
  /\ rows' = Append(rows, depthRet)
  /\ depthRet' = -1
  /\ depthPc' = IF Len(rows) + 1 = Len(nodes) THEN "done" ELSE "map"
  /\ UNCHANGED <<nodes, depthMap, depthStack, timelineVars, storeVars, searchVars, metricsVars>>

SpecGraph ==
  /\ InitGraph
  /\ [][
       \/ DepthCall
       \/ DepthReturnZero
       \/ DepthReturnMemo
       \/ DepthRecurse
       \/ DepthOverflow
       \/ DepthResume
       \/ DepthCollect
     ]_vars

\* what tracingApi.getTrace(traceId) resolves to: the spans of that trace, in
\* the order of the response (trace A: the span that started later comes first)
StoreSpan(traceId, i, start) ==
  [trace_id |-> traceId, span_id |-> i, start_time |-> Iso(start, 0)]

getTraceResponse(traceId) ==
  IF traceId = "A"
  THEN <<StoreSpan(traceId, 2, 1), StoreSpan(traceId, 1, 0)>>
  ELSE <<StoreSpan(traceId, 1, 0)>>

\* what tracingApi.listTraces() may resolve to
TraceLists == {<<>>, <<[trace_id |-> "A"]>>, <<[trace_id |-> "A"], [trace_id |-> "B"]>>}

InitStore ==
  /\ InitStoreIdle
  /\ InitTimelineIdle
  /\ InitGraphIdle
  /\ InitSearchIdle
  /\ InitMetricsIdle

\* loadTraces up to the await
LoadTraces ==
  /\ fetches < MaxFetches
  /\ store' = [store EXCEPT !.isLoading = TRUE, !.error = "null"]
  /\ inflight' = inflight \cup {[op |-> "listTraces", traceId |-> "null",
                                     sessionId |-> "null", n |-> fetches + 1]}
  /\ fetches' = fetches + 1
  /\ UNCHANGED <<timelineVars, graphVars, searchVars, metricsVars>>

\* a mutant of ListTracesResolve: the loaded list also resets the span list
ListTracesResolveClearingSpans(f, traces) ==
  /\ f \in inflight /\ f.op = "listTraces"
  /\ store' = [store EXCEPT !.traces = traces, !.spans = <<>>, !.isLoading = FALSE]
  /\ inflight' = inflight \ {f}
  /\ UNCHANGED <<fetches, timelineVars, graphVars, searchVars, metricsVars>>

\* loadTraces after the await resolved
ListTracesResolve(f, traces) ==
  /\ f \in inflight /\ f.op = "listTraces"
  /\ store' = [store EXCEPT !.traces = traces, !.isLoading = FALSE]
  /\ inflight' = inflight \ {f}
  /\ UNCHANGED <<fetches, timelineVars, graphVars, searchVars, metricsVars>>

\* loadTraces: the catch branch
ListTracesReject(f) ==
  /\ f \in inflight /\ f.op = "listTraces"
  /\ store' = [store EXCEPT !.error = "failed", !.isLoading = FALSE]
  /\ inflight' = inflight \ {f}
  /\ UNCHANGED <<fetches, timelineVars, graphVars, searchVars, metricsVars>>

\* selectTrace(null)
SelectTraceNull ==
  /\ store' = [store EXCEPT !.selectedTraceId = "null", !.spans = <<>>]
  /\ UNCHANGED <<inflight, fetches, timelineVars, graphVars, searchVars, metricsVars>>

\* selectTrace(traceId) up to the await
SelectTrace(traceId) ==
  /\ fetches < MaxFetches
  /\ store' = [store EXCEPT !.isLoading = TRUE, !.error = "null",
                            !.selectedTraceId = traceId, !.showInMain = TRUE]
  /\ inflight' = inflight \cup {[op |-> "getTrace", traceId |-> traceId,
                                     sessionId |-> "null", n |-> fetches + 1]}
  /\ fetches' = fetches + 1
  /\ UNCHANGED <<timelineVars, graphVars, searchVars, metricsVars>>

\* selectTrace after the await resolved
GetTraceResolve(f) ==
  /\ f \in inflight /\ f.op = "getTrace"
  /\ store' = [store EXCEPT !.spans = getTraceResponse(f.traceId), !.isLoading = FALSE]
  /\ inflight' = inflight \ {f}
  /\ UNCHANGED <<fetches, timelineVars, graphVars, searchVars, metricsVars>>

\* selectTrace: the catch branch
GetTraceReject(f) ==
  /\ f \in inflight /\ f.op = "getTrace"
  /\ store' = [store EXCEPT !.error = "failed", !.isLoading = FALSE]
  /\ inflight' = inflight \ {f}
  /\ UNCHANGED <<fetches, timelineVars, graphVars, searchVars, metricsVars>>

\* clear
Clear ==
  /\ store' = [store EXCEPT !.traces = <<>>, !.selectedTraceId = "null", !.spans = <<>>]
  /\ UNCHANGED <<inflight, fetches, timelineVars, graphVars, searchVars, metricsVars>>

NextStore ==
  \/ LoadTraces
  \/ \E f \in inflight, traces \in TraceLists : ListTracesResolve(f, traces)
  \/ \E f \in inflight : ListTracesReject(f)
  \/ SelectTraceNull
  \/ \E traceId \in {"A", "B"} : SelectTrace(traceId)
  \/ \E f \in inflight : GetTraceResolve(f)
  \/ \E f \in inflight : GetTraceReject(f)
  \/ Clear

SpecStore == InitStore /\ [][NextStore]_vars

\* --------------------------------------------- useTraceStore.selectSession
SessionIds == {"S1", "S2"}

SessionTrace(traceId, sessionId, start) ==
  [trace_id |-> traceId, session_id |-> sessionId, start_time |-> start]

\* the start_time strings of the summaries: a wall-clock reading of 00:00 or
\* 01:00 followed by the suffix Z (offset 0) or +02:00
StartTimes == {Iso(wall, offset) : wall \in {0, HourMs}, offset \in {0, 2 * HourMs}}

\* what tracingApi.listTraces() may resolve to when sessions are in use
SessionTraceLists ==
  {<<>>}
  \cup {<<SessionTrace("A", "S1", a)>> : a \in StartTimes}
  \cup {<<SessionTrace("A", "S1", a), SessionTrace("B", sessionId, b)>> :
          a \in StartTimes, b \in StartTimes, sessionId \in SessionIds}

localeCompare(a, b) ==
  \* String.prototype.localeCompare on two start_time strings of the same
  \* layout: the first difference is a digit of the wall-clock reading or, with
  \* equal readings, the suffix, where "+" collates before "Z"
  LET suffixRank(t) == IF t.offset = 0 THEN 1 ELSE 0
  IN
  IF a.wall # b.wall THEN (IF a.wall < b.wall THEN -1 ELSE 1)
  ELSE IF suffixRank(a) # suffixRank(b) THEN (IF suffixRank(a) < suffixRank(b) THEN -1 ELSE 1)
  ELSE 0

\* tracesForSession.sort((a, b) => b.start_time.localeCompare(a.start_time))
RECURSIVE insertLatest(_, _)
insertLatest(sorted, x) ==
  IF sorted = <<>> THEN <<x>>
  ELSE IF localeCompare(x.start_time, Head(sorted).start_time) <= 0
       THEN <<Head(sorted)>> \o insertLatest(Tail(sorted), x)
       ELSE <<x>> \o sorted

RECURSIVE sortLatestFrom(_, _)
sortLatestFrom(sorted, rest) ==
  IF rest = <<>> THEN sorted
  ELSE sortLatestFrom(insertLatest(sorted, Head(rest)), Tail(rest))

\* get().traces.filter(t => t.session_id === sessionId)
tracesForSession(st, sessionId) ==
  SelectSeq(st.traces, LAMBDA t : t.session_id = sessionId)

\* selectSession from set({ selectedSessionId }) to its return or to the await
\* of selectTrace: the store it leaves and the trace it fetches ("null": none)
selectSessionFrom(st, sessionId) ==
  LET st1 == [st EXCEPT !.selectedSessionId = sessionId]
  IN IF sessionId = "null"
     THEN [store |-> [st1 EXCEPT !.showInMain = FALSE], traceId |-> "null"]
     ELSE IF Len(tracesForSession(st1, sessionId)) > 0
          THEN LET latest == sortLatestFrom(<<>>, tracesForSession(st1, sessionId))[1]
               IN [store |-> [st1 EXCEPT !.isLoading = TRUE, !.error = "null",
                                         !.selectedTraceId = latest.trace_id,
                                         !.showInMain = TRUE],
                   traceId |-> latest.trace_id]
          ELSE [store |-> [st1 EXCEPT !.selectedTraceId = "null", !.spans = <<>>,
                                      !.showInMain = TRUE],
                traceId |-> "null"]

\* selectSession(sessionId) up to its first await
SelectSession(sessionId) ==
  /\ fetches + 2 <= MaxFetches
  /\ IF Len(store.traces) = 0
     THEN /\ store' = [store EXCEPT !.isLoading = TRUE, !.error = "null"]
          /\ inflight' = inflight \cup {[op |-> "selectSession.listTraces", traceId |-> "null",
                                          sessionId |-> sessionId, n |-> fetches + 1]}
          /\ fetches' = fetches + 1
     ELSE LET next == selectSessionFrom(store, sessionId)
          IN /\ store' = next.store
             /\ fetches' = IF next.traceId = "null" THEN fetches ELSE fetches + 1
             /\ inflight' = inflight \cup
                  (IF next.traceId = "null" THEN {}
                   ELSE {[op |-> "selectSession.getTrace", traceId |-> next.traceId,
                          sessionId |-> sessionId, n |-> fetches + 1]})
  /\ UNCHANGED <<timelineVars, graphVars, searchVars, metricsVars>>

\* await get().loadTraces() resolved with a list: loadTraces stores it and
\* selectSession goes on
SessionTracesResolve(f, traces) ==
  /\ f \in inflight /\ f.op = "selectSession.listTraces"
  /\ LET next == selectSessionFrom([store EXCEPT !.traces = traces, !.isLoading = FALSE],
                                   f.sessionId)
     IN /\ store' = next.store
        /\ fetches' = IF next.traceId = "null" THEN fetches ELSE fetches + 1
        /\ inflight' = (inflight \ {f}) \cup
             (IF next.traceId = "null" THEN {}
              ELSE {[op |-> "selectSession.getTrace", traceId |-> next.traceId,
                     sessionId |-> f.sessionId, n |-> fetches + 1]})
  /\ UNCHANGED <<timelineVars, graphVars, searchVars, metricsVars>>

\* await get().loadTraces() with the fetch failed: loadTraces catches the
\* error and selectSession goes on with the list it has
SessionTracesReject(f) ==
  /\ f \in inflight /\ f.op = "selectSession.listTraces"
  /\ LET next == selectSessionFrom([store EXCEPT !.error = "failed", !.isLoading = FALSE],
                                   f.sessionId)
     IN /\ store' = next.store
        /\ fetches' = IF next.traceId = "null" THEN fetches ELSE fetches + 1
        /\ inflight' = (inflight \ {f}) \cup
             (IF next.traceId = "null" THEN {}
              ELSE {[op |-> "selectSession.getTrace", traceId |-> next.traceId,
                     sessionId |-> f.sessionId, n |-> fetches + 1]})
  /\ UNCHANGED <<timelineVars, graphVars, searchVars, metricsVars>>

\* await get().selectTrace(latest.trace_id) resolved; set({ showInMain: true })
SessionGetTraceResolve(f) ==
  /\ f \in inflight /\ f.op = "selectSession.getTrace"
  /\ store' = [store EXCEPT !.spans = getTraceResponse(f.traceId), !.isLoading = FALSE,
                            !.showInMain = TRUE]
  /\ inflight' = inflight \ {f}
  /\ UNCHANGED <<fetches, timelineVars, graphVars, searchVars, metricsVars>>

\* the same with the fetch failed: selectTrace catches the error
SessionGetTraceReject(f) ==
  /\ f \in inflight /\ f.op = "selectSession.getTrace"
  /\ store' = [store EXCEPT !.error = "failed", !.isLoading = FALSE, !.showInMain = TRUE]
  /\ inflight' = inflight \ {f}
  /\ UNCHANGED <<fetches, timelineVars, graphVars, searchVars, metricsVars>>

SpecSession ==
  /\ InitStore
  /\ [][
       \/ \E sessionId \in SessionIds \cup {"null"} : SelectSession(sessionId)
       \/ \E f \in inflight, traces \in SessionTraceLists : SessionTracesResolve(f, traces)
       \/ \E f \in inflight : SessionTracesReject(f)
       \/ \E f \in inflight : SessionGetTraceResolve(f)
       \/ \E f \in inflight : SessionGetTraceReject(f)
       \/ Clear
     ]_vars

\* ------------------------------- ImprovedTraceView and SimpleTraceView
\* Array.prototype.sort with (a, b) => getTime(a.start_time) - getTime(b.start_time)
RECURSIVE insertSpan(_, _)
insertSpan(sorted, x) ==
  IF sorted = <<>> THEN <<x>>
  ELSE IF getTime(Head(sorted).start_time) - getTime(x.start_time) <= 0
       THEN <<Head(sorted)>> \o insertSpan(Tail(sorted), x)
       ELSE <<x>> \o sorted

RECURSIVE sortSpansFrom(_, _)
sortSpansFrom(sorted, rest) ==
  IF rest = <<>> THEN sorted
  ELSE sortSpansFrom(insertSpan(sorted, Head(rest)), Tail(rest))

\* a render of the operations list: {selectedTraceId ? ( ... spans.sort(...).map(...)
\* where spans is the array held by the store, sorted in place
RenderOperations ==
  /\ store.selectedTraceId # "null"
  /\ store' = [store EXCEPT !.spans = sortSpansFrom(<<>>, store.spans)]
  /\ UNCHANGED <<inflight, fetches, timelineVars, graphVars, searchVars, metricsVars>>

SpecView ==
  /\ InitStore
  /\ [][
       \/ NextStore
       \/ RenderOperations
     ]_vars

\* ------------------------------------------- search component (filter and sort)
\* AdvancedTraceSearch: props.traces, useState filters, useMemo filteredTraces.
\* Free-text values (search term, duration bounds, ids, names) are sequences of
\* one-character strings, so that toLowerCase, includes and parseFloat are
\* computed character by character.

NumTraces == 2
MaxActive == 2

toLowerCase(str) ==
  \* String.prototype.toLowerCase, on the letters that occur in the inputs
  LET lowerChar(c) ==
        CASE c = "C" -> "c"
          [] c = "S" -> "s"
          [] c = "T" -> "t"
          [] OTHER -> c
  IN
  [i \in 1..Len(str) |-> lowerChar(str[i])]

\* String.prototype.includes
includes(str, sub) ==
  \E i \in 0..(Len(str) - Len(sub)) : SubSeq(str, i + 1, i + Len(sub)) = sub

\* parseFloat on an unsigned digit string or a string with no numeric prefix:
\* the longest prefix of decimal digits is the value, no such prefix is NaN
DigitChars == <<"0", "1", "2", "3", "4", "5", "6", "7", "8", "9">>
isDigit(c) == \E d \in 1..10 : DigitChars[d] = c
NaN == [nan |-> TRUE, val |-> 0]
RECURSIVE digitPrefix(_, _)
digitPrefix(str, acc) ==
  LET digitOf(c) == (CHOOSE d \in 1..10 : DigitChars[d] = c) - 1
  IN
  IF str = <<>> \/ ~isDigit(Head(str)) THEN acc
  ELSE digitPrefix(Tail(str), 10 * acc + digitOf(Head(str)))

parseFloat(str) ==
  LET Num(v) == [nan |-> FALSE, val |-> v]
  IN
  IF str = <<>> \/ ~isDigit(Head(str)) THEN NaN ELSE Num(digitPrefix(str, 0))

\* new Date(trace.end_time).getTime() - new Date(trace.start_time).getTime()
duration(t) == getTime(t.end_time) - getTime(t.start_time)

\* if (filters.searchTerm) { ... }
searchFilterConcat(list, f) ==
  LET term == toLowerCase(f.searchTerm)
      ByName(t) == includes(toLowerCase(t.root_span_name), term)
      ById(t) == includes(toLowerCase(t.trace_id), term)
      BySession(t) == t.session_id # <<>> /\ includes(toLowerCase(t.session_id), term)
  IN IF f.searchTerm = <<>> THEN list
     ELSE SelectSeq(list, ByName) \o SelectSeq(list, ById) \o SelectSeq(list, BySession)

searchFilter(list, f) ==
  LET term == toLowerCase(f.searchTerm)
      Test(t) == \/ includes(toLowerCase(t.root_span_name), term)
                 \/ includes(toLowerCase(t.trace_id), term)
                 \/ (t.session_id # <<>> /\ includes(toLowerCase(t.session_id), term))
  IN IF f.searchTerm = <<>> THEN list ELSE SelectSeq(list, Test)

\* if (filters.minDuration) { const minMs = parseFloat(...); ... duration >= minMs }
minDurationFilter(list, f) ==
  \* x >= y and x <= y of JavaScript numbers: every comparison with NaN is false
  LET gte(x, y) == ~y.nan /\ x >= y.val
  IN
  LET minMs == parseFloat(f.minDuration)
      Test(t) == gte(duration(t), minMs)
  IN IF f.minDuration = <<>> THEN list ELSE SelectSeq(list, Test)

\* if (filters.maxDuration) { const maxMs = parseFloat(...); ... duration <= maxMs }
maxDurationFilter(list, f) ==
  LET lte(x, y) == ~y.nan /\ x <= y.val
  IN
  LET maxMs == parseFloat(f.maxDuration)
      Test(t) == lte(duration(t), maxMs)
  IN IF f.maxDuration = <<>> THEN list ELSE SelectSeq(list, Test)

\* the predicate of the status filter
statusTest(t, status) ==
  CASE status = "error" -> duration(t) > 15000
    [] status = "success" -> duration(t) <= 5000
    [] status = "slow" -> duration(t) > 5000 /\ duration(t) <= 15000
    [] OTHER -> TRUE

\* if (filters.status !== 'all') { ... }
statusFilter(list, f) ==
  LET Test(t) == statusTest(t, f.status)
  IN IF f.status = "all" THEN list ELSE SelectSeq(list, Test)

\* if (filters.sessionId) { ... trace.session_id === filters.sessionId }
sessionFilter(list, f) ==
  LET Test(t) == t.session_id = f.sessionId
  IN IF f.sessionId = <<>> THEN list ELSE SelectSeq(list, Test)

\* the switch on filters.dateRange: the cutoff instant, now being new Date()
cutoffDefaultNow(dateRange, now) ==
  CASE dateRange = "15m" -> now - 15 * MinuteMs
    [] dateRange = "1h" -> now - HourMs
    [] dateRange = "6h" -> now - 6 * HourMs
    [] dateRange = "24h" -> now - DayMs
    [] dateRange = "7d" -> now - 7 * DayMs
    [] OTHER -> now

cutoff(dateRange, now) ==
  CASE dateRange = "15m" -> now - 15 * MinuteMs
    [] dateRange = "1h" -> now - HourMs
    [] dateRange = "6h" -> now - 6 * HourMs
    [] dateRange = "24h" -> now - DayMs
    [] dateRange = "7d" -> now - 7 * DayMs
    [] OTHER -> 0

\* if (filters.dateRange !== 'all') { ... new Date(trace.start_time) >= cutoff }
dateRangeFilter(list, f, now) ==
  LET Test(t) == getTime(t.start_time) >= cutoff(f.dateRange, now)
  IN IF f.dateRange = "all" THEN list ELSE SelectSeq(list, Test)

\* the switch on filters.sortBy
comparison(a, b, sortBy) ==
  CASE sortBy = "timestamp" -> getTime(a.start_time) - getTime(b.start_time)
    [] sortBy = "duration" -> duration(a) - duration(b)
    [] sortBy = "spans" -> a.span_count - b.span_count
    [] OTHER -> 0

\* return filters.sortOrder === 'desc' ? -comparison : comparison
compareTraces(a, b, f) ==
  IF f.sortOrder = "desc" THEN 0 - comparison(a, b, f.sortBy)
  ELSE comparison(a, b, f.sortBy)

\* Array.prototype.sort is stable: an element goes after every element that
\* does not compare greater than it
\* a mutant of insertTrace: an element goes before the elements it ties with
RECURSIVE insertTraceBeforeTies(_, _, _)
insertTraceBeforeTies(sorted, x, f) ==
  IF sorted = <<>> THEN <<x>>
  ELSE IF compareTraces(Head(sorted), x, f) < 0
       THEN <<Head(sorted)>> \o insertTraceBeforeTies(Tail(sorted), x, f)
       ELSE <<x>> \o sorted

RECURSIVE insertTrace(_, _, _)
insertTrace(sorted, x, f) ==
  IF sorted = <<>> THEN <<x>>
  ELSE IF compareTraces(Head(sorted), x, f) <= 0
       THEN <<Head(sorted)>> \o insertTrace(Tail(sorted), x, f)
       ELSE <<x>> \o sorted

RECURSIVE sortTracesFrom(_, _, _)
sortTracesFrom(sorted, rest, f) ==
  IF rest = <<>> THEN sorted
  ELSE sortTracesFrom(insertTrace(sorted, Head(rest), f), Tail(rest), f)

\* a mutant of sortTraces: descending order obtained by reversing the ascending sort
sortTracesReversed(list, f) ==
  LET asc == sortTracesFrom(<<>>, list, [f EXCEPT !.sortOrder = "asc"])
  IN IF f.sortOrder = "desc" THEN [i \in 1..Len(asc) |-> asc[Len(asc) + 1 - i]]
     ELSE asc

\* filtered.sort((a, b) => { ... })
sortTraces(list, f) == sortTracesFrom(<<>>, list, f)

\* a mutant of filterTraces: the maxDuration filter reads traces, not filtered
filterTracesMaxOnInput(list, f, now) ==
  dateRangeFilter(
    sessionFilter(
      statusFilter(
        maxDurationFilter(list, f), f), f), f, now)

\* the filters of the filteredTraces memo, in the order of the code
filterTraces(list, f, now) ==
  dateRangeFilter(
    sessionFilter(
      statusFilter(
        maxDurationFilter(
          minDurationFilter(
            searchFilter(list, f), f), f), f), f), f, now)

\* the body of the filteredTraces memo: filter, then sort
applyFilters(list, f, now) == sortTraces(filterTraces(list, f, now), f)

\* TraceSearch, the panel without sort: its status filter and its cutoff
basicStatusFilter(list, f) ==
  LET Error(t) == duration(t) > 10000
      Success(t) == duration(t) <= 10000
  IN IF f.status = "all" THEN list
     ELSE IF f.status = "error" THEN SelectSeq(list, Error)
     ELSE IF f.status = "success" THEN SelectSeq(list, Success)
     ELSE list

basicCutoff(dateRange, now) ==
  CASE dateRange = "1h" -> now - HourMs
    [] dateRange = "24h" -> now - DayMs
    [] dateRange = "7d" -> now - 7 * DayMs
    [] OTHER -> 0

basicDateRangeFilter(list, f, now) ==
  LET Test(t) == getTime(t.start_time) >= basicCutoff(f.dateRange, now)
  IN IF f.dateRange = "all" THEN list ELSE SelectSeq(list, Test)

\* the body of the filteredTraces memo of TraceSearch
basicFilter(list, f, now) ==
  basicDateRangeFilter(
    sessionFilter(
      basicStatusFilter(
        maxDurationFilter(
          minDurationFilter(
            searchFilter(list, f), f), f), f), f), f, now)

\* trace summaries the list endpoint can return: two traces of one session that
\* start together and have as many spans, an older trace of another session,
\* and an older trace without session that lasts as long as the first
\* (instants are epoch milliseconds; the newest trace starts ten days after
\* the epoch, later than every cutoff the date filter can compute)
traceStart == 10 * DayMs
Summary(id, session, start, dur, count) ==
  [trace_id |-> <<"t", id>>, root_span_name |-> <<"C", "h", "a", "t">>,
   session_id |-> session,
   start_time |-> Iso(start, 0), end_time |-> Iso(start + dur, 0),
   span_count |-> count]

TracePool ==
  <<Summary("1", <<"S", "1">>, traceStart, 5000, 1),
    Summary("2", <<"S", "1">>, traceStart, 15000, 1),
    Summary("3", <<"S", "2">>, traceStart - 2 * HourMs, 15001, 2),
    Summary("4", <<>>, traceStart - 2 * HourMs, 5000, 2)>>

\* what the inputs of the filter panel can be set to
FilterValues ==
  [searchTerm |-> {<<>>, <<"s", "1">>, <<"T">>},
   minDuration |-> {<<>>, <<"a", "b", "c">>, <<"5", "0", "0", "0">>},
   maxDuration |-> {<<>>, <<"a", "b", "c">>, <<"1", "5", "0", "0", "0">>},
   status |-> {"all", "success", "slow", "error", "unknown"},
   sessionId |-> {<<>>, <<"S", "1">>},
   dateRange |-> {"all", "1h", "unknown"},
   sortBy |-> {"timestamp", "duration", "spans", "unknown"},
   sortOrder |-> {"asc", "desc"}]

activeCount(f) == Cardinality({k \in DOMAIN f : f[k] # defaultFilters[k]})

\* the component after its first render, half an hour after the newest trace
\* starts (the clock stands still while the filters are edited)
InitSearch ==
  /\ \E n \in 0..NumTraces :
       \E ix \in [1..n -> 1..Len(TracePool)] :
         /\ \A i, j \in 1..n : ix[i] = ix[j] => i = j
         /\ traceList = [i \in 1..n |-> TracePool[ix[i]]]
  /\ filters = defaultFilters
  /\ clock = traceStart + 30 * MinuteMs
  /\ filteredTraces = applyFilters(traceList, filters, clock)
  /\ InitTimelineIdle
  /\ InitGraphIdle
  /\ InitStoreIdle
  /\ InitMetricsIdle

\* updateFilter(key, value) and the render that follows
UpdateFilter(key, value) ==
  /\ activeCount([filters EXCEPT ![key] = value]) <= MaxActive
  /\ filters' = [filters EXCEPT ![key] = value]
  /\ filteredTraces' = applyFilters(traceList, filters', clock)
  /\ UNCHANGED <<traceList, clock, timelineVars, graphVars, storeVars, metricsVars>>

\* clearFilters and the render that follows
ClearFilters ==
  /\ filters' = defaultFilters
  /\ filteredTraces' = applyFilters(traceList, filters', clock)
  /\ UNCHANGED <<traceList, clock, timelineVars, graphVars, storeVars, metricsVars>>

NextSearch ==
  \/ \E key \in DOMAIN FilterValues : \E value \in FilterValues[key] : UpdateFilter(key, value)
  \/ ClearFilters

SpecSearch == InitSearch /\ [][NextSearch]_vars

\* the same component while time passes: const now = new Date() reads a later
\* clock at each evaluation of the memo, and the memo is evaluated again only
\* when traces or filters change
MaxTicks == 1

Tick ==
  /\ clock < traceStart + 30 * MinuteMs + MaxTicks * HourMs
  /\ clock' = clock + HourMs
  /\ UNCHANGED <<traceList, filters, filteredTraces, timelineVars, graphVars, storeVars, metricsVars>>

SpecClock ==
  /\ InitSearch
  /\ [][
       \/ NextSearch
       \/ Tick
     ]_vars

\* ------------------------------------------- metric cards (aggregates)
\* ResponsiveMetricCards: props.traces, props.spans, useMemo metrics. The
\* two breakdown fields of the record are not part of this model.

MaxLatencies == 21
MaxTokenSpans == 2

\* the values an attribute of a span can have: absent, a number, or a string
\* (of which only the length matters: '' is falsy)
undefined == [type |-> "undefined", val |-> 0]
number(n) == [type |-> "number", val |-> n]
string(length) == [type |-> "string", val |-> length]
TokenKeys == <<"usage.total_tokens", "total_tokens", "completion_tokens">>
noAttributes == [k \in {TokenKeys[i] : i \in 1..Len(TokenKeys)} |-> undefined]

MetricSpan(i, code) == [span_id |-> i, status_code |-> code, attributes |-> noAttributes]

\* a + b over a list of numbers (reduce)
RECURSIVE sum(_)
sum(list) == IF list = <<>> THEN 0 ELSE Head(list) + sum(Tail(list))

RECURSIVE insertNumber(_, _)
insertNumber(sorted, x) ==
  IF sorted = <<>> THEN <<x>>
  ELSE IF Head(sorted) - x <= 0
       THEN <<Head(sorted)>> \o insertNumber(Tail(sorted), x)
       ELSE <<x>> \o sorted

RECURSIVE sortNumbersFrom(_, _)
sortNumbersFrom(sorted, rest) ==
  IF rest = <<>> THEN sorted
  ELSE sortNumbersFrom(insertNumber(sorted, Head(rest)), Tail(rest))

\* a mutant of sortLatencies: the latencies are indexed in input order
sortLatenciesOmitted(latencies) == latencies

\* [...latencies].sort((a, b) => a - b)
sortLatencies(latencies) == sortNumbersFrom(<<>>, latencies)

\* a mutant of percentileIndex: the index is rounded to the nearest integer
percentileIndexRounded(length, percent) == (length * percent + 50) \div 100

\* Math.floor(length * 0.95) and Math.floor(length * 0.99); the product is
\* computed in floating point, which gives the exact floor for length < 100
percentileIndex(length, percent) == (length * percent) \div 100

\* sortedLatencies[index] || 0, index counted from 0
elementOrZero(list, index) ==
  IF index < Len(list) /\ list[index + 1] # 0 THEN list[index + 1] ELSE 0

\* spans.filter(s => s.status_code === 'ERROR').length
errorCount(ss) == Cardinality({i \in 1..Len(ss) : ss[i].status_code = "ERROR"})

or(x, y) ==
  \* x || y
  LET truthy(v) == (v.type = "number" /\ v.val # 0) \/ (v.type = "string" /\ v.val # 0)
  IN
  IF truthy(x) THEN x ELSE y

\* const tokens = a[...] || a[...] || a[...] || 0
tokensOf(span) ==
  or(or(or(span.attributes["usage.total_tokens"],
           span.attributes["total_tokens"]),
        span.attributes["completion_tokens"]),
     number(0))

\* spans.forEach(span => { ...; if (typeof tokens === 'number') totalTokens += tokens })
RECURSIVE totalTokens(_)
totalTokens(ss) ==
  IF ss = <<>> THEN 0
  ELSE (IF tokensOf(Head(ss)).type = "number" THEN tokensOf(Head(ss)).val ELSE 0)
       + totalTokens(Tail(ss))

\* the body of the metrics memo
computeMetrics(ts, ss) ==
  IF Len(ts) = 0 THEN emptyMetrics
  ELSE
    LET latencies == [i \in 1..Len(ts) |-> duration(ts[i])]
        sortedLatencies == sortLatencies(latencies)
        p95Index == percentileIndex(Len(sortedLatencies), 95)
        p99Index == percentileIndex(Len(sortedLatencies), 99)
        errorRate == IF Len(ss) # 0 THEN Rat(errorCount(ss) * 100, Len(ss)) ELSE Rat(0, 1)
        timeSpan == IF Len(ts) > 1
                    THEN getTime(ts[1].start_time) - getTime(ts[Len(ts)].start_time)
                    ELSE HourMs
        window == IF timeSpan > HourMs THEN timeSpan ELSE HourMs
    IN [avgLatency |-> Rat(sum(latencies), Len(latencies)),
        p95Latency |-> elementOrZero(sortedLatencies, p95Index),
        p99Latency |-> elementOrZero(sortedLatencies, p99Index),
        errorRate |-> errorRate,
        throughput |-> Rat(Len(ts) * HourMs, window),
        totalTokens |-> totalTokens(ss),
        successRate |-> Rat(100 * errorRate.den - errorRate.num, errorRate.den),
        slowestTrace |-> SeqMax(latencies)]

\* the body of the metrics memo of TraceMetrics: the same computation without
\* p99Latency, successRate and slowestTrace
traceMetrics(ts, ss) ==
  IF Len(ts) = 0
  THEN [avgLatency |-> Rat(0, 1), p95Latency |-> 0, errorRate |-> Rat(0, 1),
        throughput |-> Rat(0, 1), totalTokens |-> 0]
  ELSE
    LET latencies == [i \in 1..Len(ts) |-> duration(ts[i])]
        sortedLatencies == sortLatencies(latencies)
        p95Index == percentileIndex(Len(sortedLatencies), 95)
        timeSpan == IF Len(ts) > 1
                    THEN getTime(ts[1].start_time) - getTime(ts[Len(ts)].start_time)
                    ELSE HourMs
        window == IF timeSpan > HourMs THEN timeSpan ELSE HourMs
    IN [avgLatency |-> Rat(sum(latencies), Len(latencies)),
        p95Latency |-> elementOrZero(sortedLatencies, p95Index),
        errorRate |-> IF Len(ss) # 0 THEN Rat(errorCount(ss) * 100, Len(ss)) ELSE Rat(0, 1),
        throughput |-> Rat(Len(ts) * HourMs, window),
        totalTokens |-> totalTokens(ss)]

\* the trace summaries of the metric cards: n traces with the given starts and
\* durations
metricSummaries(n, starts, durs) ==
  [i \in 1..n |-> Summary(DigitChars[i + 1], <<>>, starts[i], durs[i], 1)]

\* the component is constructed with props.traces and props.spans
InitMetrics ==
  /\ \E n \in 0..NumTraces :
       \E starts \in [1..n -> 0..MaxStart], durs \in [1..n -> 0..MaxDur] :
         metricTraces = metricSummaries(n, starts, durs)
  /\ \E m \in 0..NumSpans :
       \E codes \in [1..m -> {"OK", "ERROR"}] :
         metricSpans = [i \in 1..m |-> MetricSpan(i, codes[i])]
  /\ metrics = emptyMetrics
  /\ metricsReady = FALSE
  /\ InitTimelineIdle
  /\ InitGraphIdle
  /\ InitStoreIdle
  /\ InitSearchIdle

\* the first render: the memo is computed
RenderMetrics ==
  /\ ~metricsReady
  /\ metricsReady' = TRUE
  /\ metrics' = computeMetrics(metricTraces, metricSpans)
  /\ UNCHANGED <<metricTraces, metricSpans, timelineVars, graphVars, storeVars, searchVars>>

SpecMetrics == InitMetrics /\ [][RenderMetrics]_vars

InitLatency ==
  \* the same component with up to MaxLatencies traces and no spans: the
  \* latencies are 2, 1 and 0 ms, listed from the slowest trace to the fastest,
  \* with every split of the list into the three values
  LET latencyAt(i, slow, medium) == IF i <= slow THEN 2 ELSE IF i <= slow + medium THEN 1 ELSE 0
  IN
  /\ \E n \in 1..MaxLatencies :
       \E slow \in 0..n :
         \E medium \in 0..(n - slow) :
           metricTraces = [i \in 1..n |-> Summary("1", <<>>, 0, latencyAt(i, slow, medium), 1)]
  /\ metricSpans = <<>>
  /\ metrics = emptyMetrics
  /\ metricsReady = FALSE
  /\ InitTimelineIdle
  /\ InitGraphIdle
  /\ InitStoreIdle
  /\ InitSearchIdle

SpecLatency == InitLatency /\ [][RenderMetrics]_vars

\* the same component with traces of 100, 200, ... ms: every list of
\* distinct durations among them, in every order
ScenarioSize == 5
ScenarioDurations == [i \in 1..ScenarioSize |-> 100 * i]

InitScenario ==
  /\ \E n \in 1..Len(ScenarioDurations) :
       \E pick \in [1..n -> 1..Len(ScenarioDurations)] :
         /\ \A i, j \in 1..n : pick[i] = pick[j] => i = j
         /\ metricTraces = [i \in 1..n |->
                              Summary(DigitChars[i + 1], <<>>, 0, ScenarioDurations[pick[i]], 1)]
  /\ metricSpans = <<>>
  /\ metrics = emptyMetrics
  /\ metricsReady = FALSE
  /\ InitTimelineIdle
  /\ InitGraphIdle
  /\ InitStoreIdle
  /\ InitSearchIdle

SpecScenario == InitScenario /\ [][RenderMetrics]_vars

\* the same component with traces that start whole hours apart, in every order
InitThroughput ==
  /\ \E n \in 0..NumTraces :
       \E hours \in [1..n -> 0..(MaxStart + 2)], durs \in [1..n -> 0..MaxDur] :
         metricTraces = metricSummaries(n, [i \in 1..n |-> hours[i] * HourMs], durs)
  /\ metricSpans = <<>>
  /\ metrics = emptyMetrics
  /\ metricsReady = FALSE
  /\ InitTimelineIdle
  /\ InitGraphIdle
  /\ InitStoreIdle
  /\ InitSearchIdle

SpecThroughput == InitThroughput /\ [][RenderMetrics]_vars

InitTokens ==
  \* the same component with one trace and spans that carry token attributes:
  \* each key absent, 0 or a positive count, the first key also a string
  LET TokenAttributes ==
        {[k \in DOMAIN noAttributes |->
            CASE k = "usage.total_tokens" -> a
              [] k = "total_tokens" -> b
              [] k = "completion_tokens" -> c] :
           a \in {undefined, number(0), number(3), string(1)},
           b \in {undefined, number(0), number(5)},
           c \in {undefined, number(7)}}
  IN
  /\ metricTraces = metricSummaries(1, <<0>>, <<0>>)
  /\ \E m \in 0..MaxTokenSpans :
       \E attrs \in [1..m -> TokenAttributes] :
         metricSpans = [i \in 1..m |-> [MetricSpan(i, "OK") EXCEPT !.attributes = attrs[i]]]
  /\ metrics = emptyMetrics
  /\ metricsReady = FALSE
  /\ InitTimelineIdle
  /\ InitGraphIdle
  /\ InitStoreIdle
  /\ InitSearchIdle

SpecTokens == InitTokens /\ [][RenderMetrics]_vars

\* ------------------------------------- the parent relation of the input
spanIds(ss) == {ss[i].span_id : i \in 1..Len(ss)}
inputPos(ss, id) == CHOOSE i \in 1..Len(ss) : ss[i].span_id = id
parentOf(ss, id) == ss[inputPos(ss, id)].parent_span_id
isResolved(ss, id) == parentOf(ss, id) # NoParent /\ parentOf(ss, id) \in spanIds(ss)

\* the spans met by following resolved parent references from id, at most k times
RECURSIVE climb(_, _, _)
climb(ss, id, k) ==
  IF k = 0 \/ ~isResolved(ss, id) THEN {}
  ELSE {parentOf(ss, id)} \cup climb(ss, parentOf(ss, id), k - 1)

ancestors(ss, id) == climb(ss, id, Len(ss))
hasCycle(ss) == \E id \in spanIds(ss) : id \in ancestors(ss, id)
isDangling(ss, id) == parentOf(ss, id) # NoParent /\ parentOf(ss, id) \notin spanIds(ss)

Range(f) == {f[i] : i \in 1..Len(f)}
posIn(f, x) == CHOOSE i \in 1..Len(f) : f[i] = x
forestIds(tree) == Range(flatten(tree.rootSpans, tree.spanMap, {}))

\* the observable shape of a built tree: roots, and children and depth per span
forest(tree) ==
  [rootSpans |-> tree.rootSpans,
   shape |-> [id \in DOMAIN tree.spanMap |->
                [depth |-> tree.spanMap[id].depth,
                 children |-> tree.spanMap[id].children]]]

\* ----------------------------------------------------------------- claims

\* C1: after the span tree is built, every span attached to a resolved parent
\* has depth = its parent's final depth + 1 and every root has depth 0, in
\* every input order (stated here on span sets without a parent cycle, where
\* the claim's own case, a descendant listed before its ancestor, lies).
C1_DepthIsParentDepthPlusOne ==
  (mounted /\ ~hasCycle(spans)) =>
    \A id \in DOMAIN spanTree.spanMap :
      IF isResolved(spans, id)
      THEN spanTree.spanMap[id].depth = spanTree.spanMap[parentOf(spans, id)].depth + 1
      ELSE spanTree.spanMap[id].depth = 0

\* C3: a span whose parent_span_id is its own span_id is a root: it is in the
\* returned root sequence, has depth 0 and is not a child of itself.
C3_SelfParentIsRoot ==
  mounted =>
    \A id \in DOMAIN spanTree.spanMap :
      parentOf(spans, id) = id =>
        /\ id \in Range(spanTree.rootSpans)
        /\ spanTree.spanMap[id].depth = 0
        /\ id \notin Range(spanTree.spanMap[id].children)

\* C4: with a parent cycle among two or more spans (A's parent is B, B's
\* parent is A) a span of the cycle is demoted to root, so that every input
\* span is still present in the returned forest.
C4_CycleSpansKept ==
  LET hasSelfParent(ss) == \E id \in spanIds(ss) : parentOf(ss, id) = id
  IN
  (mounted /\ ~hasSelfParent(spans)) => spanIds(spans) \subseteq forestIds(spanTree)

\* C6: a span whose parent_span_id is absent or names no span of the set is a
\* root of depth 0, and the forest (roots, children, depths) built from the
\* set is the forest built from the set with the dangling references removed.
C6_DanglingParentIsRoot ==
  \* the same spans with every unresolvable parent reference removed
  LET stripDangling(ss) ==
        [i \in 1..Len(ss) |->
           IF isDangling(ss, ss[i].span_id)
           THEN [ss[i] EXCEPT !.parent_span_id = NoParent]
           ELSE ss[i]]
  IN
  mounted =>
    /\ \A id \in DOMAIN spanTree.spanMap :
         ~isResolved(spans, id) =>
           /\ id \in Range(spanTree.rootSpans)
           /\ spanTree.spanMap[id].depth = 0
    /\ forest(spanTree) = forest(buildSpanTree(stripDangling(spans)))

\* C6 witness: a built tree whose input has a dangling parent reference on a
\* span that itself has a child
C6_Witness ==
  /\ mounted
  /\ \E id \in DOMAIN spanTree.spanMap :
       /\ isDangling(spans, id)
       /\ Len(spanTree.spanMap[id].children) > 0
       /\ id \in Range(spanTree.rootSpans)

\* ascending startMs, and equal startMs in input order
sortedStable(list) ==
  \A a, b \in 1..Len(list) :
    a < b =>
      /\ spanTree.spanMap[list[a]].startMs <= spanTree.spanMap[list[b]].startMs
      /\ spanTree.spanMap[list[a]].startMs = spanTree.spanMap[list[b]].startMs
           => inputPos(spans, list[a]) < inputPos(spans, list[b])

\* C7: in the built forest the root sequence and the children of every node
\* are in ascending startMs order, siblings of equal startMs in input order;
\* a root R with two children c1, c2 (c1 starting first) gives one root with
\* children [c1, c2] and depths 0, 1, 1 in every input order.
C7_ChildrenSortedStable ==
  mounted =>
    /\ sortedStable(spanTree.rootSpans)
    /\ \A id \in forestIds(spanTree) : sortedStable(spanTree.spanMap[id].children)
    /\ \A r, c1, c2 \in spanIds(spans) :
         ( /\ Len(spans) = 3
           /\ Cardinality({r, c1, c2}) = 3
           /\ parentOf(spans, r) = NoParent
           /\ parentOf(spans, c1) = r
           /\ parentOf(spans, c2) = r
           /\ getTime(spans[inputPos(spans, c1)].start_time)
                < getTime(spans[inputPos(spans, c2)].start_time) )
         => /\ spanTree.rootSpans = <<r>>
            /\ spanTree.spanMap[r].children = <<c1, c2>>
            /\ spanTree.spanMap[r].depth = 0
            /\ spanTree.spanMap[c1].depth = 1
            /\ spanTree.spanMap[c2].depth = 1

\* C7 witness: a node whose two children were listed in the input in the
\* opposite order of their start times, and a node with two children of
\* equal start
C7_Witness ==
  /\ mounted
  /\ \E id \in forestIds(spanTree) :
       LET ch == spanTree.spanMap[id].children
       IN /\ Len(ch) = 2
          /\ inputPos(spans, ch[1]) > inputPos(spans, ch[2])
          /\ spanTree.spanMap[ch[1]].startMs < spanTree.spanMap[ch[2]].startMs

siblingsOf(id) ==
  IF isResolved(spans, id)
  THEN spanTree.spanMap[parentOf(spans, id)].children
  ELSE spanTree.rootSpans

\* C8: the flattened sequence is the pre-order traversal of exactly the
\* spans of the forest none of whose proper ancestors is collapsed; adding a
\* span id to the collapsed set removes exactly that span's descendants from
\* the sequence and keeps the span itself.
C8_FlattenedIsVisiblePreorder ==
  \* spans of the forest none of whose proper ancestors is collapsed
  LET visibleIds(collapsed) ==
        {id \in forestIds(spanTree) : ancestors(spans, id) \cap collapsed = {}}
  IN
  \* f lists its spans once each, every child after its parent with only
  \* descendants of that parent in between, siblings in the order of their list
  LET isPreorder(f) ==
        /\ \A a, b \in 1..Len(f) : f[a] = f[b] => a = b
        /\ \A k \in 1..Len(f) :
             isResolved(spans, f[k]) =>
               \E j \in 1..(k - 1) :
                 /\ f[j] = parentOf(spans, f[k])
                 /\ \A l \in (j + 1)..(k - 1) : f[j] \in ancestors(spans, f[l])
        /\ \A a, b \in 1..Len(f) :
             (a < b /\ siblingsOf(f[a]) = siblingsOf(f[b])
                    /\ isResolved(spans, f[a]) = isResolved(spans, f[b])
                    /\ (isResolved(spans, f[a]) => parentOf(spans, f[a]) = parentOf(spans, f[b])))
               => posIn(siblingsOf(f[a]), f[a]) < posIn(siblingsOf(f[b]), f[b])
  IN
  mounted =>
    /\ Range(flattenedSpans) = visibleIds(collapsedSpans)
    /\ isPreorder(flattenedSpans)
    /\ \A x \in forestIds(spanTree) :
         LET keep(id) == x \notin ancestors(spans, id)
         IN flattened(spanTree, collapsedSpans \cup {x}) = SelectSeq(flattenedSpans, keep)

\* C8 witness: a collapsed span is listed while its child and grandchild are not
C8_Witness ==
  /\ mounted
  /\ \E x \in collapsedSpans :
       /\ x \in Range(flattenedSpans)
       /\ \E c, g \in forestIds(spanTree) \ Range(flattenedSpans) :
            parentOf(spans, c) = x /\ parentOf(spans, g) = c

\* C9: toggling a span a second time right after toggling it returns the
\* collapsed set and the flattened sequence to what they were before the
\* first toggle.
C9_ToggleRoundTrip ==
  [][\A x \in 1..NumSpans :
       ToggleCollapse(x) =>
         /\ toggle(collapsedSpans', x) = collapsedSpans
         /\ flattened(spanTree', toggle(collapsedSpans', x)) = flattenedSpans]_vars

\* C9 witness: two spans have been collapsed, the outer one after the inner
C9_Witness ==
  /\ mounted
  /\ Cardinality(collapsedSpans) = 2
  /\ Len(flattenedSpans) < Cardinality(forestIds(spanTree))

\* C10: the total duration that bar placement divides by is at least 1 ms
\* for every span set, the empty set and a set whose spans share one instant
\* included.
C10_TotalDurationAtLeastOne == mounted => maxTime >= 1

\* C5: depth(n) of the graph view reaches a result for every node of every
\* finite span set, a self-parent span and a parent cycle included: the
\* recursion never exhausts the call stack.
C5_DepthTerminates == depthPc # "overflow"

getTraceInFlight == \E f \in inflight : f.op = "getTrace"

\* C2: last selection wins: once no span fetch is in flight (and none has
\* failed since the last selection), the store's spans are the response for
\* the most recently selected trace id, or empty if the last selection was
\* null; never the response of an earlier selection.
C2_LastSelectionWins ==
  (~getTraceInFlight /\ store.error = "null") =>
    store.spans = IF store.selectedTraceId = "null" THEN <<>>
                  ELSE getTraceResponse(store.selectedTraceId)

\* C11: a duration bound that is not a number filters nothing: with every
\* other option at its default, every input trace is in the result
C11_NonNumericBoundIsNoOp ==
  \* ------------------------------------------------ claims on the filter
  \* the filters are the defaults except for one duration bound that does not
  \* parse as a number
  LET onlyNonNumericBound ==
        \E k \in {"minDuration", "maxDuration"} :
          /\ filters[k] # <<>>
          /\ parseFloat(filters[k]).nan
          /\ filters = [defaultFilters EXCEPT ![k] = filters[k]]
  IN
  onlyNonNumericBound =>
    /\ Len(filteredTraces) = Len(traceList)
    /\ Range(filteredTraces) = Range(traceList)

\* the filters with one option put back to its default
unset(f, key) == [f EXCEPT ![key] = defaultFilters[key]]

occurrences(list, x) == Cardinality({i \in 1..Len(list) : list[i] = x})
isSubBag(out, in) == \A x \in Range(out) : occurrences(out, x) <= occurrences(in, x)

\* C13: filtering only removes traces: every trace of the result is a trace of
\* the input and occurs in the result at most as often as in the input
C13_OutputWithinInput ==
  /\ isSubBag(filteredTraces, traceList)
  /\ isSubBag(basicFilter(traceList, filters, clock), traceList)

\* a search term is set, one trace matches it and another does not
C13_Witness ==
  /\ filters.searchTerm # <<>>
  /\ 0 < Len(filteredTraces)
  /\ Len(filteredTraces) < Len(traceList)

stage(k, list, f, now) ==
  CASE k = 1 -> searchFilter(list, f)
    [] k = 2 -> minDurationFilter(list, f)
    [] k = 3 -> maxDurationFilter(list, f)
    [] k = 4 -> statusFilter(list, f)
    [] k = 5 -> sessionFilter(list, f)
    [] k = 6 -> dateRangeFilter(list, f, now)
Stages == 1..6

\* the filters applied in the given order
RECURSIVE applyInOrder(_, _, _, _)
applyInOrder(order, list, f, now) ==
  IF order = <<>> THEN list
  ELSE applyInOrder(Tail(order), stage(Head(order), list, f, now), f, now)

\* every rotation of the code's order, forwards and backwards
rotation(r) == [i \in Stages |-> ((i + r - 1) % Cardinality(Stages)) + 1]
backwards(order) == [i \in Stages |-> order[Cardinality(Stages) + 1 - i]]
\* C15: a trace is in the result iff it satisfies every filter predicate, and
\* the result is the same whatever the order of the filters, the sort being last
C15_FiltersAreConjunction ==
  LET StageOrders == {rotation(r) : r \in Stages} \cup {backwards(rotation(r)) : r \in Stages}
  IN
  \* the trace satisfies the predicate of every filter (a filter that is not
  \* set lets every trace pass)
  LET passesAll(t, f, now) == \A k \in Stages : stage(k, <<t>>, f, now) = <<t>>
  IN
  /\ Range(filteredTraces) = {t \in Range(traceList) : passesAll(t, filters, clock)}
  /\ \A order \in StageOrders :
       sortTraces(applyInOrder(order, traceList, filters, clock), filters) = filteredTraces

\* a session and a status are selected; one trace passes both, another does not
C15_Witness ==
  /\ filters.sessionId # <<>>
  /\ filters.status # "all"
  /\ 0 < Len(filteredTraces)
  /\ Len(filteredTraces) < Len(traceList)

\* the key the comparator of the sort compares
sortKey(t, sortBy) ==
  CASE sortBy = "timestamp" -> getTime(t.start_time)
    [] sortBy = "duration" -> duration(t)
    [] sortBy = "spans" -> t.span_count

\* two positions of the result that hold traces with the same sort key
tiedAt(i, j) ==
  /\ i < j
  /\ sortKey(filteredTraces[i], filters.sortBy) = sortKey(filteredTraces[j], filters.sortBy)

\* C16: the sort is stable in both directions: two traces with the same sort
\* key are in the result in the order they have in the input list
C16_SortIsStable ==
  filters.sortBy \in {"timestamp", "duration", "spans"} =>
    \A i, j \in 1..Len(filteredTraces) :
      tiedAt(i, j) => posIn(traceList, filteredTraces[i]) < posIn(traceList, filteredTraces[j])

\* a descending sort by duration of two traces that last equally long
C16_Witness ==
  /\ filters.sortBy = "duration"
  /\ filters.sortOrder = "desc"
  /\ Len(filteredTraces) >= 2
  /\ tiedAt(1, 2)

\* C17: with only a status selected, the result holds exactly the traces whose
\* duration falls in that bucket: success below the low threshold, slow from
\* the low up to the high threshold, error at or above the high threshold; a
\* trace lasting exactly the high threshold is selected by status = error and
\* not by status = slow
C17_StatusBuckets ==
  LET bucket(ms) == IF ms < 5000 THEN "success" ELSE IF ms < 15000 THEN "slow" ELSE "error"
  IN (/\ filters.status \in {"success", "slow", "error"}
      /\ filters = [defaultFilters EXCEPT !.status = filters.status]) =>
       Range(filteredTraces) = {t \in Range(traceList) : bucket(duration(t)) = filters.status}

\* ------------------------------------------------ claims on the metrics
ratEq(a, b) == a.num * b.den = b.num * a.den
\* C18: errorRate is the share of spans with status_code ERROR, times 100, for
\* every non-empty span set and 0 for the empty one, whatever the trace list
\* is (also when it is empty while spans are present)
C18_ErrorRateFromSpans ==
  metricsReady =>
    IF Len(metricSpans) # 0
    THEN ratEq(metrics.errorRate, Rat(errorCount(metricSpans) * 100, Len(metricSpans)))
    ELSE ratEq(metrics.errorRate, Rat(0, 1))

\* C19: errorRate and successRate of the returned record sum to 100, for every
\* trace list (the empty one included) and every span set
C19_RatesSumToHundred ==
  LET ratPlus(a, b) == Rat(a.num * b.den + b.num * a.den, a.den * b.den)
  IN
  metricsReady => ratEq(ratPlus(metrics.errorRate, metrics.successRate), Rat(100, 1))

\* the latencies of the listed traces, and the value at index k (from 0) of
\* their ascending order: fewer than k + 1 latencies are below it and at
\* least k + 1 are not above it
latenciesOf(ts) == [i \in 1..Len(ts) |-> duration(ts[i])]
rankValue(latencies, k) ==
  CHOOSE v \in Range(latencies) :
    /\ Cardinality({i \in 1..Len(latencies) : latencies[i] < v}) <= k
    /\ Cardinality({i \in 1..Len(latencies) : latencies[i] <= v}) > k
median(latencies) == rankValue(latencies, percentileIndex(Len(latencies), 50))

\* C20: for a non-empty trace list with end_time >= start_time, the 99th
\* percentile is at least the 95th, which is at least the median (the sorted
\* latency at index floor(0.5 * count)); both percentiles are nearest-rank
C20_PercentilesOrdered ==
  (metricsReady /\ Len(metricTraces) > 0) =>
    LET latencies == latenciesOf(metricTraces)
    IN /\ metrics.p99Latency >= metrics.p95Latency
       /\ metrics.p95Latency >= median(latencies)
       /\ metrics.p95Latency = rankValue(latencies, percentileIndex(Len(latencies), 95))
       /\ metrics.p99Latency = rankValue(latencies, percentileIndex(Len(latencies), 99))

\* enough traces for the three ranks to differ: the slowest trace alone is the
\* 99th percentile, the 95th lies below it and the median below that
C20_Witness ==
  /\ metricsReady
  /\ Len(metricTraces) > 0
  /\ metrics.p99Latency > metrics.p95Latency
  /\ metrics.p95Latency > median(latenciesOf(metricTraces))

\* ------------------------------------------------ claims on the store
\* C27: isLoading is true whenever a fetch started by loadTraces or
\* selectTrace has neither resolved nor rejected: the completion of one fetch
\* never clears isLoading while another fetch is in flight
C27_LoadingWhileInFlight == inflight # {} => store.isLoading

\* C28: when no span fetch is in flight, spans is empty or is the response
\* fetched for selectedTraceId; after a failed selectTrace(T) the store does
\* not pair T with the spans of the trace selected before, and spans is empty
\* when selectedTraceId is null
C28_SpansMatchSelection ==
  ~getTraceInFlight =>
    \/ store.spans = <<>>
    \/ /\ store.selectedTraceId # "null"
       /\ store.spans = getTraceResponse(store.selectedTraceId)

\* a step in which a listTraces fetch settles
listTracesSettles == \E f \in inflight : f.op = "listTraces" /\ inflight' = inflight \ {f}

\* the step of the catch branch of loadTraces: traces, spans and
\* selectedTraceId are left alone, error is the message, isLoading is false
loadFailureFrame ==
  /\ store'.traces = store.traces
  /\ store'.spans = store.spans
  /\ store'.selectedTraceId = store.selectedTraceId
  /\ store'.error = "failed"
  /\ store'.isLoading = FALSE

RECURSIVE rankSum(_, _)
rankSum(latencies, k) ==
  IF k = 0 THEN 0 ELSE rankValue(latencies, k - 1) + rankSum(latencies, k - 1)

\* C21: for every non-empty trace list, p95Latency is the latency at index
\* floor(0.95 * count) of the ascending order and avgLatency is the arithmetic
\* mean, whatever the order of the list; the five durations 100..500 give
\* p95 = 500 and avgLatency = 300 (both in the cards and in TraceMetrics)
C21_PercentileAndMean ==
  (metricsReady /\ Len(metricTraces) > 0) =>
    LET latencies == latenciesOf(metricTraces)
        n == Len(latencies)
        other == traceMetrics(metricTraces, metricSpans)
    IN /\ metrics.p95Latency = rankValue(latencies, (95 * n) \div 100)
       /\ ratEq(metrics.avgLatency, Rat(rankSum(latencies, n), n))
       /\ other.p95Latency = metrics.p95Latency
       /\ other.avgLatency = metrics.avgLatency
       /\ Range(latencies) = {100, 200, 300, 400, 500} /\ n = 5 =>
            metrics.p95Latency = 500 /\ ratEq(metrics.avgLatency, Rat(300, 1))

C21_Witness ==
  /\ metricsReady
  /\ Len(metricTraces) = 5
  /\ duration(metricTraces[1]) = 500
  /\ duration(metricTraces[5]) = 300
  /\ metrics.p95Latency = 500

\* C22: throughput is count * 3600000 / max(newest start - oldest start,
\* 3600000), with newest and oldest the greatest and least start_time of the
\* list, so it is the same for every order of the list (two ratios with the
\* numerator count * 3600000 are equal when their denominators are)
C22_ThroughputOverWindow ==
  (metricsReady /\ Len(metricTraces) > 0) =>
    LET starts == [i \in 1..Len(metricTraces) |-> getTime(metricTraces[i].start_time)]
        timeSpan == SeqMax(starts) - SeqMin(starts)
        window == IF timeSpan > HourMs THEN timeSpan ELSE HourMs
        stated == Rat(Len(metricTraces) * HourMs, window)
    IN /\ metrics.throughput = stated
       /\ traceMetrics(metricTraces, metricSpans).throughput = stated

\* C23: totalTokens is the sum over the spans of the value of the first
\* present key among usage.total_tokens, total_tokens and completion_tokens,
\* counted only when it is a number: a first present key of 0 contributes 0
\* and a first present key that is not a number contributes nothing
C23_TokensFromFirstPresentKey ==
  metricsReady =>
    LET present(span) == {i \in 1..Len(TokenKeys) : span.attributes[TokenKeys[i]] # undefined}
        first(span) == span.attributes[TokenKeys[CHOOSE i \in present(span) :
                                                   \A j \in present(span) : i <= j]]
        stated(span) == IF present(span) # {} /\ first(span).type = "number"
                        THEN first(span).val ELSE 0
        contributions == [i \in 1..Len(metricSpans) |-> stated(metricSpans[i])]
    IN /\ metrics.totalTokens = sum(contributions)
       /\ traceMetrics(metricTraces, metricSpans).totalTokens = sum(contributions)

\* C24: no view computation mutates its input: a render of the trace views
\* leaves the store's spans array as the last fetch delivered it, the same
\* spans in the same order
C24_RenderLeavesSpans == [][RenderOperations => store'.spans = store.spans]_vars

\* C25: selecting a session picks the trace of that session with the greatest
\* start instant, the timestamps compared as epoch milliseconds: whenever
\* selectSession starts the fetch of a trace, no trace of the session started
\* later in absolute time than the one it fetches
C25_SessionPicksLatestInstant ==
  [][\A f \in inflight' \ inflight :
       f.op = "selectSession.getTrace" =>
         LET mine == tracesForSession(store', f.sessionId)
         IN \A i, j \in 1..Len(mine) :
              mine[i].trace_id = f.traceId =>
                getTime(mine[i].start_time) >= getTime(mine[j].start_time)]_vars

\* C26: the filter is a function of the trace list and the filter
\* specification alone: the sequence the memo holds, computed from them at an
\* earlier time, is the sequence an invocation with the same two inputs
\* returns now (also with a relative dateRange such as 1h or 24h)
C26_FilterIndependentOfTime ==
  filteredTraces = applyFilters(traceList, filters, clock)

\* C29: for a span set with unique span_ids and no parent cycle, flattening
\* the built forest with nothing collapsed lists every input span exactly
\* once, each span after its resolved parent
C29_FlattenedIsPermutation ==
  (mounted /\ ~hasCycle(spans)) =>
    LET all == flattened(spanTree, {})
    IN /\ Len(all) = Len(spans)
       /\ Range(all) = spanIds(spans)
       /\ \A id \in spanIds(spans) :
            isResolved(spans, id) => posIn(all, parentOf(spans, id)) < posIn(all, id)
       /\ collapsedSpans = {} => flattenedSpans = all

\* C29 witness: a chain of three spans listed in the input from the
\* grandchild up, flattened with nothing collapsed
C29_Witness ==
  /\ mounted
  /\ collapsedSpans = {}
  /\ Len(flattenedSpans) = 3
  /\ parentOf(spans, 1) = 2
  /\ parentOf(spans, 2) = 3
  /\ parentOf(spans, 3) = NoParent
  /\ flattenedSpans = <<3, 2, 1>>

====
